---- MODULE Spec2Model ----
(***************************************************************************)
(* Model of the Allora off-chain node: main.py checks its configuration,   *)
(* starts one Worker thread per topic and joins them; Worker.run onboards  *)
(* (activity, whitelist, registration) and then polls the topic nonce; all *)
(* workers share one Wallet, whose register_for_topic and submit_inference *)
(* (build -> simulate -> fee -> affordability -> broadcast -> confirmation *)
(* polling -> sequence/balance update) run under Wallet.sequence_lock.     *)
(*                                                                         *)
(* Python values are encoded as follows: the empty string is "", a         *)
(* transaction hash is the string "txhash", and the integer -1 that        *)
(* wallet.py compares tx_hash with is NegOne (a value no string equals).   *)
(* gas_price is a float in the program; here it is the rational            *)
(* gas_price / GasPriceDen.                                                *)
(*                                                                         *)
(* Two specifications of the steps are given.  wallet.py calls             *)
(* Transaction.set_fee(gas_limit=, gas_price=, gas_adjustment=) and        *)
(* Transaction.get_fee(), but src/transactions/tx.py defines set_fee with  *)
(* the parameters (gas_limit, gas_price) only and defines no get_fee.      *)
(*   SpecTx : the program with Transaction exactly as in tx.py - the       *)
(*            set_fee call raises TypeError (SetFeeRaises).                *)
(*   Spec   : the wallet pipeline against the Transaction fee interface    *)
(*            wallet.py is written for (SetFee, GetFee), which is what     *)
(*            makes the code after the fee step executable.                *)
(* FairSpec is Spec with weak fairness on every thread.                    *)
(* SpecTransaction is the class Transaction of tx.py used on its own,      *)
(* through its own methods, for a wallet with any of the modelled gas      *)
(* prices and sequences.                                                   *)
(***************************************************************************)
EXTENDS Integers, FiniteSets, Sequences, TLC

\* ---------------------------------------------------------------- bounds
NumWorkers == 2
MaxGas == 1
InitGasPrice == 1
GasPriceDen == 1
InitBalance == 2
InitSequence == 0
MaxBroadcastFailures == 6
MaxUnknownPolls == 1
TxCheckRetries == 2
MaxNonce == 1
InferenceFetchRetries == 2
MaxGasPrice == 2
MaxSequence == 1

\* ------------------------------------------------------ program constants
SimulateRetries == 3
BroadcastRetries == 5

Workers == 1..NumWorkers
NoWorker == 0
NegOne == "int(-1)"
TxHash == "txhash"
GasValues == 1..MaxGas
Nonces == 0..MaxNonce

\* A history counter that stops counting at `cap`: the loops it observes can
\* run for ever.  Once it has stopped, obs.tick alternates instead, so that
\* an iteration of such a loop is still a step.
UpTo(n, cap) == IF n > cap THEN cap ELSE n

VARIABLES
    sequence,        \* Wallet.sequence
    balance,         \* Wallet.balance
    sequence_lock,   \* Wallet.sequence_lock: NoWorker when free, else its holder
    gas_price,       \* APINode.gas_price (numerator over GasPriceDen)
    wstate,          \* position of the Worker thread in Worker.run
    latest_used_nonce, \* Worker.latest_used_nonce
    inference_nonce, \* Worker.run local `inference_nonce`
    fetch_retries,   \* Worker.run local `retries` of the inference fetch loop
    inference_value, \* Worker.run local `inference_value`: "None" or "value"
    stop_event,      \* Worker.stop_event: TRUE when set
    reason,          \* per worker: what the last onboarding check found, why it stopped (history)
    mpc,             \* position of main(): "startup", "exited", "starting", "waiting",
                     \* "joining", "finished"
    joined,          \* number of threads main() has joined
    interrupted,     \* main() has caught KeyboardInterrupt (history)
    fatal,           \* what the startup checks of main() found (history)
    pc,              \* position of the worker inside the Wallet method
    kind,            \* "register" (register_for_topic) or "submit" (submit_inference)
    retries,         \* local `retries` of the running loop
    gas_limit,       \* local `gas_limit`
    tx,              \* the call's Transaction: signer sequence and fee
    tx_hash,         \* local `tx_hash`
    poll_retries,    \* wait_for_tx local `retries`
    receipt,         \* wait_for_tx local `receipt`: "None", "code0", "codeN"
    message,         \* value returned by wait_for_tx
    obs,             \* observations of the call in progress (history)
    last,            \* record of the call that ended most recently (history)
    sequence0,       \* the wallet's sequence after construction
    reached          \* ended calls that had issued at least one broadcast_tx

walletVars == <<sequence, balance, gas_price, sequence0>>
frameVars == <<retries, gas_limit, tx, tx_hash, poll_retries, receipt, message>>
runVars == <<wstate, latest_used_nonce, inference_nonce, fetch_retries, inference_value,
             stop_event, reason>>
mainVars == <<mpc, joined, interrupted, fatal>>
vars == <<sequence, balance, sequence_lock, gas_price, wstate, pc, kind, retries,
          gas_limit, tx, tx_hash, poll_retries, receipt, message, obs, last,
          sequence0, reached, latest_used_nonce, inference_nonce,
          fetch_retries, inference_value, stop_event, reason, mpc, joined, interrupted,
          fatal>>

\* The values get_tx_bytes reads besides the Transaction: the chain id of the
\* node, the account number and the private key of the wallet.  None of them
\* is assigned after construction, nor is the public key of the wallet.
ChainId == "chain_id"
AccountNumber == "account_number"
PrivKey == "priv_key"
PubKey == "pub_key"

\* What get_tx_bytes signs (tx_proto.SignDoc): the body, the signer's public
\* key and sequence and the fee of the Transaction, the chain id and the
\* account number.
NoDoc == [body |-> "none", public_key |-> "none", sequence |-> -1, gas_limit |-> 0, fee |-> 0,
          chain_id |-> ChainId, account_number |-> AccountNumber]

\* The encoded transaction (tx_proto.TxRaw): the signed document and the
\* signature over it, which is decided by the document, the key and the
\* ECDSA nonce k.
NoBytes == [doc |-> NoDoc, signature |-> [key |-> "none", k |-> "none"]]

\* A Transaction: the body, the signer's public key and sequence, the fee,
\* whether it has been signed (get_tx_bytes has been called on it) and the
\* bytes the last get_tx_bytes returned.
NoTx == [sequence |-> -1, public_key |-> "none", body |-> "none", gas_limit |-> 0, fee |-> 0,
         fee_set |-> FALSE, signed |-> FALSE, bytes |-> NoBytes]

\* Observations of a call in progress.  simCalls, bcastCalls and pollCalls
\* count the external calls of the stage the call is in; issued records that
\* broadcast_tx was called at all; seqAtEntry and balAtEntry are the wallet's
\* sequence and balance when the lock was taken.
NoObs == [simCalls |-> 0, bcastCalls |-> 0, rejected |-> FALSE, rebroadcast |-> FALSE,
          issued |-> FALSE, pollCalls |-> 0, failed |-> FALSE, tick |-> FALSE,
          seqAtEntry |-> 0, balAtEntry |-> 0]

\* What is recorded of a call when it ends: the thread, the method, how it returned
\* ("True", "False", "raised"), its terminal outcome, the calls of the stage
\* it ended in, whether it broadcast, its hash and fee, and by how much it
\* moved the wallet's sequence and balance.
NoLast == [worker |-> NoWorker, kind |-> "none", result |-> "none", outcome |-> "none",
           simCalls |-> 0, issued |-> FALSE, failed |-> FALSE, tx_hash |-> "",
           fee_set |-> FALSE, fee |-> 0, seqDelta |-> 0, balDelta |-> 0]

\* Worker.run positions.  "unstarted" before thread.start().  Onboarding
\* (l.78-104): "start" before the
\* connection and activity checks, "whitelist" before the whitelist checks,
\* "registered" before is_registered_for, "registering" inside
\* register_for_topic, "recheck" before the second activity check.  Polling
\* (l.106-157): "looptop" at the `while` test, "nonce" before
\* get_topic_nonce, "fetch" in the inference fetch loop, "submitting" inside
\* submit_inference, "sleep" in time.sleep(nonce_fetch_freq).
OnboardingStates == {"start", "whitelist", "registered", "registering", "recheck"}
PollingStates == {"looptop", "nonce", "fetch", "submitting", "sleep"}

\* Why run() returned before the loop (l.78-104).
OnboardingAborts == {"not_connected", "inactive", "not_whitelisted", "register_failed",
                     "inactive_recheck"}

InCall == {"build", "simulate", "setfee", "afford", "broadcast", "confirm", "apply"}

\* main() before its startup checks; no thread is started.  The fields of
\* the Wallet, the APINode and the Workers have the values their constructors
\* give them when the checks pass: Wallet.__init__ makes the wallet usable
\* only with sequence # -1 and balance # 0, APINode.create_client refuses a
\* wallet node whose gas price is 0.0.
Constructed(price, seq) ==
    /\ sequence = seq
    /\ sequence0 = sequence
    /\ balance = InitBalance
    /\ gas_price = price
    /\ sequence_lock = NoWorker
    /\ wstate = [w \in Workers |-> "unstarted"]
    /\ latest_used_nonce = [w \in Workers |-> 0]
    /\ inference_nonce = [w \in Workers |-> 0]
    /\ fetch_retries = [w \in Workers |-> 0]
    /\ inference_value = [w \in Workers |-> "None"]
    /\ stop_event = [w \in Workers |-> FALSE]
    /\ reason = [w \in Workers |-> "none"]
    /\ mpc = "startup"
    /\ joined = 0
    /\ interrupted = FALSE
    /\ fatal = "none"
    /\ pc = [w \in Workers |-> "none"]
    /\ kind = [w \in Workers |-> "none"]
    /\ retries = [w \in Workers |-> 0]
    /\ gas_limit = [w \in Workers |-> -1]
    /\ tx = [w \in Workers |-> NoTx]
    /\ tx_hash = [w \in Workers |-> ""]
    /\ poll_retries = [w \in Workers |-> 0]
    /\ receipt = [w \in Workers |-> "None"]
    /\ message = [w \in Workers |-> ""]
    /\ obs = [w \in Workers |-> NoObs]
    /\ last = NoLast
    /\ reached = 0

Init == Constructed(InitGasPrice, InitSequence)

\* ------------------------------------------------------------ Worker.run
walletFrame == <<sequence_lock, pc, kind, frameVars, obs, last, reached>>
callFrame == <<sequence_lock, pc, kind, frameVars, obs, reached>>

\* `last` describes a call until the thread that made it takes its next step.
Forget(w) == last' = IF last.worker = w THEN NoLast ELSE last

\* run() returns (through `finally` when inside the try block): the thread
\* is dead and the locals of run() are gone.
StopWorker(w) ==
    /\ wstate' = [wstate EXCEPT ![w] = "stopped"]
    /\ inference_nonce' = [inference_nonce EXCEPT ![w] = 0]
    /\ inference_value' = [inference_value EXCEPT ![w] = "None"]
    /\ fetch_retries' = [fetch_retries EXCEPT ![w] = 0]

\* `if not X: return` of the onboarding checks: run() goes on only when no
\* abort condition was met.
OnboardingGoesOnAnyway(found) == TRUE

OnboardingGoesOn(found) == found = "none"

\* One onboarding check: `found` is the abort condition the answers of the
\* chain amount to ("none" when there is none), `next` the position after it.
OnboardingCheck(w, found, next) ==
    /\ reason' = [reason EXCEPT ![w] = found]
    /\ IF OnboardingGoesOn(found)
       THEN /\ wstate' = [wstate EXCEPT ![w] = next]
            /\ UNCHANGED <<inference_nonce, inference_value, fetch_retries>>
       ELSE StopWorker(w)

\* l.78-84: `if not is_connected(): return`, `if not is_topic_active(): return`.
CheckTopicActive(w) ==
    /\ wstate[w] = "start"
    /\ \E found \in {IF ~connected THEN "not_connected"
                      ELSE IF ~active THEN "inactive" ELSE "none" :
                      connected \in BOOLEAN, active \in BOOLEAN} :
          OnboardingCheck(w, found, "whitelist")
    /\ UNCHANGED <<walletVars, walletFrame, mainVars, latest_used_nonce,
                   stop_event>>

\* l.86-90: `if is_topic_whitelisted(): if not is_whitelisted_for(): return`.
CheckWhitelist(w) ==
    /\ wstate[w] = "whitelist"
    /\ \E found \in {IF enabled /\ ~listed THEN "not_whitelisted" ELSE "none" :
                      enabled \in BOOLEAN, listed \in BOOLEAN} :
          OnboardingCheck(w, found, "registered")
    /\ UNCHANGED <<walletVars, walletFrame, mainVars, latest_used_nonce,
                   stop_event>>

\* l.92: is_registered_for() answered True: no registration.
SkipRegister(w) ==
    /\ wstate[w] = "registered"
    /\ wstate' = [wstate EXCEPT ![w] = "recheck"]
    /\ UNCHANGED <<walletVars, walletFrame, mainVars, latest_used_nonce,
                   inference_nonce, fetch_retries, inference_value, stop_event, reason>>

\* l.92-93: is_registered_for() answered False: wallet.register_for_topic(topic_id).
CallRegister(w) ==
    /\ wstate[w] = "registered"
    /\ kind' = [kind EXCEPT ![w] = "register"]
    /\ pc' = [pc EXCEPT ![w] = "lock"]
    /\ wstate' = [wstate EXCEPT ![w] = "registering"]
    /\ UNCHANGED <<walletVars, sequence_lock, frameVars, obs, last, reached, mainVars,
                   latest_used_nonce, inference_nonce, fetch_retries, inference_value,
                   stop_event, reason>>

\* l.100-104: the second `if not is_topic_active(): return`; otherwise the
\* loop is entered.
Recheck(w) ==
    /\ wstate[w] = "recheck"
    /\ \E active \in BOOLEAN :
          OnboardingCheck(w, IF ~active THEN "inactive_recheck" ELSE "none", "looptop")
    /\ Forget(w)
    /\ UNCHANGED <<walletVars, callFrame, mainVars, latest_used_nonce,
                   stop_event>>

stop_lost(flag) == flag

\* Worker.stop (l.164-168): self.stop_event.set()
stop(flag) == TRUE

StopEveryWorker(w) == Workers

\* l.112: `self.stop()` - the Worker whose stop_event the call sets is the
\* calling one.
StopSelf(w) == {w}

LoopRunsRegardless(flag) == TRUE

\* l.107: `while not self.stop_event.is_set()`
LoopRuns(flag) == ~flag

\* l.107-113: `while not self.stop_event.is_set()`: with the flag set the
\* loop ends and run() returns; otherwise is_topic_active() is asked, and an
\* inactive topic makes the worker call self.stop() and `continue`, which
\* is recorded in `reason`.
LoopTop(w) ==
    /\ wstate[w] = "looptop"
    /\ IF ~LoopRuns(stop_event[w])
       THEN /\ StopWorker(w)
            /\ reason' = [reason EXCEPT ![w] = IF @ = "inactive_loop" THEN @ ELSE "stop_event"]
            /\ UNCHANGED stop_event
       ELSE \E active \in BOOLEAN :
               /\ wstate' = [wstate EXCEPT ![w] = IF active THEN "nonce" ELSE "looptop"]
               /\ stop_event' = [v \in Workers |->
                                   IF ~active /\ v \in StopSelf(w)
                                   THEN stop(stop_event[v]) ELSE stop_event[v]]
               /\ reason' = [reason EXCEPT ![w] = IF active THEN @ ELSE "inactive_loop"]
               /\ UNCHANGED <<inference_nonce, fetch_retries, inference_value>>
    /\ UNCHANGED <<walletVars, walletFrame, mainVars, latest_used_nonce>>

NewNonceOrSame(n, latest) == n > 0 /\ n >= latest

\* l.116: `if inference_nonce > 0 and inference_nonce > self.latest_used_nonce`
NewNonce(n, latest) == n > 0 /\ n > latest

\* l.115-121, l.152-155: get_topic_nonce() (0 on any error); a new nonce
\* starts the inference fetch with retries = inference_fetch_retries and
\* inference_value = None, anything else goes to the sleep.
GetTopicNonce(w) ==
    /\ wstate[w] = "nonce"
    /\ \E n \in Nonces :
          /\ inference_nonce' = [inference_nonce EXCEPT ![w] = n]
          /\ IF NewNonce(n, latest_used_nonce[w])
             THEN /\ fetch_retries' = [fetch_retries EXCEPT ![w] = InferenceFetchRetries]
                  /\ inference_value' = [inference_value EXCEPT ![w] = "None"]
                  /\ wstate' = [wstate EXCEPT ![w] = "fetch"]
             ELSE /\ wstate' = [wstate EXCEPT ![w] = "sleep"]
                  /\ UNCHANGED <<fetch_retries, inference_value>>
    /\ UNCHANGED <<walletVars, walletFrame, mainVars, latest_used_nonce, stop_event,
                   reason>>

\* What the inference endpoint can answer: a transport error, one of the
\* statuses 403/429/500/503, status 200 with a number or with any other text
\* as body, any other status (404, 502, ...) with a number or a text as body.
FetchResponses == {"request_error", "http_error", "value", "unparsable",
                   "other_status_number", "other_status_text"}

\* Worker.fetch_inference (l.49-68): None on a transport error or on status
\* 403/429/500/503, float(req.text) otherwise - which raises ValueError when
\* the body is not a number.
fetch_inference(resp) ==
    IF resp \in {"request_error", "http_error"} THEN "None"
    ELSE IF resp \in {"value", "other_status_number"} THEN "value"
    ELSE "ValueError"

UsedNonceAlways(latest, n, value) == n

\* l.137-151: what latest_used_nonce is after the fetch loop:
\* `self.latest_used_nonce = inference_nonce` is in the branch taken with a
\* value, after submit_inference; without a value there is only a warning.
UsedNonce(latest, n, value) == IF value = "None" THEN latest ELSE n

\* l.122: `while retries > 0 and inference_value is None`
FetchLoop(r, v) == r > 0 /\ v = "None"

\* l.145-149: wallet.submit_inference(inference_value, topic_id, inference_nonce).
CallSubmit(w) ==
    /\ kind' = [kind EXCEPT ![w] = "submit"]
    /\ pc' = [pc EXCEPT ![w] = "lock"]
    /\ wstate' = [wstate EXCEPT ![w] = "submitting"]

\* One iteration of the fetch loop (l.123-135) and, when it was the last
\* one, what follows the loop: with a value the submit call (l.141-149),
\* with none after the last retry the warning and the sleep (l.137-140).  A
\* ValueError leaves the try block through `except Exception` (l.158) and
\* the thread ends.
Fetch(w) ==
    /\ wstate[w] = "fetch"
    /\ FetchLoop(fetch_retries[w], inference_value[w])
    /\ \E fetched \in {fetch_inference(resp) : resp \in FetchResponses} :
          CASE fetched = "value" ->
                 /\ inference_value' = [inference_value EXCEPT ![w] = "value"]
                 /\ fetch_retries' = [fetch_retries EXCEPT ![w] = 0]
                 /\ CallSubmit(w)
                 /\ UNCHANGED <<inference_nonce, reason, latest_used_nonce>>
            [] fetched = "None" ->
                 /\ fetch_retries' = [fetch_retries EXCEPT ![w] = @ - 1]
                 /\ wstate' = [wstate EXCEPT ![w] =
                                 IF FetchLoop(fetch_retries[w] - 1, "None")
                                 THEN "fetch" ELSE "sleep"]
                 /\ latest_used_nonce' = [latest_used_nonce EXCEPT ![w] =
                                            IF FetchLoop(fetch_retries[w] - 1, "None")
                                            THEN @
                                            ELSE UsedNonce(@, inference_nonce[w], "None")]
                 /\ UNCHANGED <<inference_value, inference_nonce, reason, kind, pc>>
            [] fetched = "ValueError" ->
                 /\ StopWorker(w)
                 /\ reason' = [reason EXCEPT ![w] = "exception"]
                 /\ UNCHANGED <<kind, pc, latest_used_nonce>>
    /\ UNCHANGED <<walletVars, sequence_lock, frameVars, obs, last, reached, mainVars,
                   stop_event>>

\* l.157: time.sleep(nonce_fetch_freq), then back to the `while` test.  The
\* locals of the iteration are dead from here on (each is assigned before it
\* is read again) and are dropped.
Sleep(w) ==
    /\ wstate[w] = "sleep"
    /\ wstate' = [wstate EXCEPT ![w] = "looptop"]
    /\ inference_nonce' = [inference_nonce EXCEPT ![w] = 0]
    /\ inference_value' = [inference_value EXCEPT ![w] = "None"]
    /\ fetch_retries' = [fetch_retries EXCEPT ![w] = 0]
    /\ Forget(w)
    /\ UNCHANGED <<walletVars, callFrame, mainVars, latest_used_nonce,
                   stop_event, reason>>

\* ------------------------------------------------------------------ main
\* What aborts main() before the threads are created (main.py l.101-133).
FatalFindings == {"seed_phrase", "api_params", "node_not_connected",
                  "wallet_not_initialized", "no_topics"}

\* The checks of l.101-133 in their order: "seed_phrase" in CONFIG and not
\* empty; api_params with a non-empty api_url; wallet_api_node.is_connected()
\* (False when the node is unreachable, answers badly or is syncing);
\* wallet.is_initialized(); "topics" in CONFIG and not empty.
StartupFinding(seed, api, connected, initialized, topics) ==
    IF ~seed THEN "seed_phrase"
    ELSE IF ~api THEN "api_params"
    ELSE IF ~connected THEN "node_not_connected"
    ELSE IF ~initialized THEN "wallet_not_initialized"
    ELSE IF ~topics THEN "no_topics"
    ELSE "none"

StartupGoesOnAnyway(found) == TRUE

\* Each check is `if ...: logger.critical(...); exit(-1)`.
StartupGoesOn(found) == found = "none"

\* main.py l.101-133: the startup checks; the first one that fails ends the
\* process.
CheckConfig ==
    /\ mpc = "startup"
    /\ \E found \in {StartupFinding(seed, api, connected, initialized, topics) :
                      seed \in BOOLEAN, api \in BOOLEAN, connected \in BOOLEAN,
                      initialized \in BOOLEAN, topics \in BOOLEAN} :
          /\ fatal' = found
          /\ mpc' = IF StartupGoesOn(found) THEN "starting" ELSE "exited"
    /\ UNCHANGED <<walletVars, walletFrame, runVars, joined, interrupted>>

\* l.135-158: `for topic_params in CONFIG["topics"]`: one Worker is created
\* and started per topic, in order; the threads started so far are running
\* meanwhile.  (Every topic entry has its topic_id and inference_url.)
StartThread ==
    /\ mpc = "starting"
    /\ \E w \in Workers :
          /\ wstate[w] = "unstarted"
          /\ \A v \in Workers : v < w => wstate[v] # "unstarted"
          /\ wstate' = [wstate EXCEPT ![w] = "start"]
          /\ mpc' = IF w = NumWorkers THEN "waiting" ELSE "starting"
    /\ UNCHANGED <<walletVars, walletFrame, latest_used_nonce, inference_nonce,
                   fetch_retries, inference_value, stop_event, reason, joined,
                   interrupted, fatal>>

\* Thread.is_alive()
IsAlive(w) == wstate[w] \notin {"unstarted", "stopped"}

\* main.py l.160-167: KeyboardInterrupt caught while main() waits in
\* `while any(thread.is_alive() ...)`: thread.stop() for every thread.
Interrupt ==
    /\ mpc = "waiting"
    /\ stop_event' = [w \in Workers |-> stop(stop_event[w])]
    /\ interrupted' = TRUE
    /\ mpc' = "joining"
    /\ UNCHANGED <<walletVars, walletFrame, joined, fatal, wstate, latest_used_nonce,
                   inference_nonce, fetch_retries, inference_value, reason>>

\* l.161-162: the waiting loop ends when no thread is alive.
WaitExit ==
    /\ mpc = "waiting"
    /\ \A w \in Workers : ~IsAlive(w)
    /\ mpc' = "joining"
    /\ UNCHANGED <<walletVars, walletFrame, joined, interrupted, fatal, runVars>>

JoinedWithoutWaiting(w) == TRUE

\* Thread.join() returns once the thread is dead.
Joined(w) == ~IsAlive(w)

\* l.169-172: `for thread in threads: thread.join()`, one thread per step,
\* and after the last one "Execution finished.".
Join ==
    /\ mpc = "joining"
    /\ joined < NumWorkers
    /\ Joined(joined + 1)
    /\ joined' = joined + 1
    /\ mpc' = IF joined + 1 = NumWorkers THEN "finished" ELSE "joining"
    /\ UNCHANGED <<walletVars, walletFrame, interrupted, fatal, runVars>>

\* ----------------------------------------------------------------- Wallet
\* `with self.sequence_lock:` - blocks until the lock is free.
LockFreeIgnored(holder) == TRUE

LockFree(holder) == holder = NoWorker

Acquire(w) ==
    /\ pc[w] = "lock"
    /\ LockFree(sequence_lock)
    /\ sequence_lock' = w
    /\ pc' = [pc EXCEPT ![w] = "build"]
    /\ obs' = [obs EXCEPT ![w] = [NoObs EXCEPT !.seqAtEntry = sequence,
                                               !.balAtEntry = balance]]
    /\ UNCHANGED <<walletVars, runVars, mainVars, kind, frameVars, last, reached>>

AfterCallAsksAgain(k, res) ==
    IF res = "raised" THEN "stopped"
    ELSE IF k = "register" THEN (IF res = "True" THEN "recheck" ELSE "registered")
    ELSE "sleep"

\* Where Worker.run goes on after the Wallet method: register_for_topic
\* returning False (l.95-98) or any exception (uncaught at l.93, caught at
\* l.158 for submit_inference) ends the thread; register_for_topic returning
\* True goes on to the second activity check, submit_inference returning
\* goes on to l.151 and the sleep.
AfterCall(k, res) ==
    IF res = "raised" THEN "stopped"
    ELSE IF k = "register" THEN (IF res = "True" THEN "recheck" ELSE "stopped")
    ELSE "sleep"

LockKeptOnRaise(w, res) == IF res = "raised" THEN w ELSE NoWorker

\* `with self.sequence_lock:` releases the lock however the block is left,
\* by `return` or by an exception.
LockAfter(w, res) == NoWorker

\* The end of the `with` block, by return or by exception: the lock is
\* released, the frame and its locals are gone, the call is recorded in
\* `last`, and Worker.run goes on; after submit_inference returned,
\* `self.latest_used_nonce = inference_nonce` (l.151).
Leave(w, res, out) ==
    /\ pc' = [pc EXCEPT ![w] = "none"]
    /\ kind' = [kind EXCEPT ![w] = "none"]
    /\ sequence_lock' = LockAfter(w, res)
    /\ last' = [worker |-> w, kind |-> kind[w], result |-> res, outcome |-> out,
                simCalls |-> obs[w].simCalls, issued |-> obs[w].issued,
                failed |-> obs[w].failed,
                tx_hash |-> tx_hash[w], fee_set |-> tx[w].fee_set, fee |-> tx[w].fee,
                seqDelta |-> sequence' - obs[w].seqAtEntry,
                balDelta |-> obs[w].balAtEntry - balance']
    /\ reached' = IF obs[w].issued THEN reached + 1 ELSE reached
    /\ wstate' = [wstate EXCEPT ![w] = AfterCall(kind[w], res)]
    /\ reason' = [reason EXCEPT ![w] =
                    IF res = "raised" THEN "exception"
                    ELSE IF kind[w] = "register" /\ res = "False" THEN "register_failed"
                    ELSE @]
    /\ latest_used_nonce' = [latest_used_nonce EXCEPT ![w] =
                               IF kind[w] = "submit" /\ res # "raised"
                               THEN UsedNonce(@, inference_nonce[w], inference_value[w])
                               ELSE @]
    /\ IF AfterCall(kind[w], res) = "stopped"
       THEN /\ inference_nonce' = [inference_nonce EXCEPT ![w] = 0]
            /\ inference_value' = [inference_value EXCEPT ![w] = "None"]
       ELSE UNCHANGED <<inference_nonce, inference_value>>
    /\ UNCHANGED <<fetch_retries, stop_event, mainVars>>
    /\ obs' = [obs EXCEPT ![w] = NoObs]
    /\ retries' = [retries EXCEPT ![w] = 0]
    /\ gas_limit' = [gas_limit EXCEPT ![w] = -1]
    /\ poll_retries' = [poll_retries EXCEPT ![w] = 0]
    /\ receipt' = [receipt EXCEPT ![w] = "None"]
    /\ message' = [message EXCEPT ![w] = ""]
    /\ tx' = [tx EXCEPT ![w] = NoTx]
    /\ tx_hash' = [tx_hash EXCEPT ![w] = ""]

TransactionNextSequence(seq) == [NoTx EXCEPT !.sequence = seq + 1, !.public_key = PubKey]

\* Transaction.__init__: a zero fee, and signer_info with the wallet's public
\* key and sequence = wallet.get_sequence().
Transaction(seq) == [NoTx EXCEPT !.sequence = seq, !.public_key = PubKey]

\* Transaction.set_tx_body: the message of the call becomes the body.
set_tx_body(t, body) == [t EXCEPT !.body = body]

\* tx = Transaction(self); tx.set_tx_body(...); retries = 3; gas_limit = -1.
Build(w) ==
    /\ pc[w] = "build"
    /\ tx' = [tx EXCEPT ![w] = set_tx_body(Transaction(sequence), kind[w])]
    /\ retries' = [retries EXCEPT ![w] = SimulateRetries]
    /\ gas_limit' = [gas_limit EXCEPT ![w] = -1]
    /\ pc' = [pc EXCEPT ![w] = "simulate"]
    /\ UNCHANGED <<walletVars, sequence_lock, runVars, mainVars, kind, tx_hash, poll_retries,
                   receipt, message, obs, last, reached>>

\* tx_proto.SignDoc(body_bytes, auth_info_bytes, chain_id, account_number),
\* where auth_info holds signer_info and the fee.
SignDoc(t) == [body |-> t.body, public_key |-> t.public_key, sequence |-> t.sequence,
               gas_limit |-> t.gas_limit, fee |-> t.fee, chain_id |-> ChainId,
               account_number |-> AccountNumber]

sign(key, doc) == {"random_1", "random_2"}

\* SigningKey.sign_deterministic: the ECDSA nonces the signer may use for a
\* key and a document.  The nonce is derived from the key and the digest of
\* the document (RFC 6979), so there is one; SigningKey.sign would draw it at
\* random.
sign_deterministic(key, doc) == {"rfc6979"}

\* Transaction.get_tx_bytes: every call builds the SignDoc from the body and
\* the fee as they are, signs it with nonce k and returns the encoded
\* transaction.
get_tx_bytes(t, k) ==
    [t EXCEPT !.signed = TRUE,
              !.bytes = [doc |-> SignDoc(t), signature |-> [key |-> PrivKey, k |-> k]]]

SimulateLoopOneMore(r, g) == r >= 0 /\ g = -1

\* `while retries > 0 and gas_limit == -1`
SimulateLoop(r, g) == r > 0 /\ g = -1

\* One iteration: gas_limit = simulate_tx(tx.get_tx_bytes()), which is -1 on
\* any failure; a failure takes one retry and goes back to the loop test.
\* With an estimate the loop test and the `if gas_limit == -1` after it are
\* both false and the call is at set_fee; `retries` is dead from there on
\* (it is assigned before it is read again) and is dropped.
Simulate(w) ==
    /\ pc[w] = "simulate"
    /\ SimulateLoop(retries[w], gas_limit[w])
    /\ \E g \in {-1} \cup GasValues :
          /\ gas_limit' = [gas_limit EXCEPT ![w] = g]
          /\ retries' = [retries EXCEPT ![w] = IF g = -1 THEN @ - 1 ELSE 0]
          /\ pc' = [pc EXCEPT ![w] = IF g = -1 THEN @ ELSE "setfee"]
          /\ obs' = [obs EXCEPT ![w] =
                       [@ EXCEPT !.simCalls = IF g = -1 THEN @ + 1 ELSE 0,
                                 !.failed = @ \/ g = -1]]
    /\ \E k \in sign_deterministic(PrivKey, SignDoc(tx[w])) :
          tx' = [tx EXCEPT ![w] = get_tx_bytes(@, k)]
    /\ UNCHANGED <<walletVars, sequence_lock, runVars, mainVars, kind, tx_hash,
                   poll_retries, receipt, message, last, reached>>

\* What the gas-exhausted path returns: register_for_topic False,
\* submit_inference True.
UnestimableResult(k) == IF k = "register" THEN "False" ELSE "True"

\* After the loop has used up its retries: `if gas_limit == -1: return ...`.
SimulateExit(w) ==
    /\ pc[w] = "simulate"
    /\ ~SimulateLoop(retries[w], gas_limit[w])
    /\ gas_limit[w] = -1
    /\ UNCHANGED <<walletVars>>
    /\ Leave(w, UnestimableResult(kind[w]), "Unestimable")

\* ------------------------------------------------------- Transaction fee
\* Transaction.set_fee as defined in tx.py, and as called from wallet.py.
SetFeeParameters == {"gas_limit", "gas_price"}
SetFeeCallKeywords == {"gas_limit", "gas_price", "gas_adjustment"}

\* Python binds a keyword call only if every keyword names a parameter;
\* otherwise the call raises TypeError before the body runs.
SetFeeCallBinds == SetFeeCallKeywords \subseteq SetFeeParameters

\* Wallet.gas_adjustment, the configured adjustment factor, as
\* <<numerator, denominator>>.
gas_adjustment == <<3, 2>>

\* Body of set_fee: gas_limit = int(gas_limit * 1.5),
\* amount = int(gas_limit * 1.5 * gas_price).
FeeGasLimit(g) == (g * 3) \div 2
FeeAmount(g, price) == (g * 3 * price) \div (2 * GasPriceDen)

\* Transaction.set_fee(gas_limit, gas_price): the fee is replaced.
set_fee(t, g, price) == [t EXCEPT !.gas_limit = FeeGasLimit(g),
                                  !.fee = FeeAmount(g, price),
                                  !.fee_set = TRUE]

\* tx.set_fee(gas_limit=, gas_price=, gas_adjustment=) with Transaction as in
\* tx.py: TypeError.  The exception leaves the `with` block (the lock is
\* released) and ends the calling thread: register_for_topic is called
\* outside Worker.run's try, submit_inference inside it (caught, loop left).
SetFeeRaises(w) ==
    /\ pc[w] = "setfee"
    /\ ~SetFeeCallBinds
    /\ UNCHANGED <<walletVars>>
    /\ Leave(w, "raised", "TypeError")

\* The fee step against the fee interface wallet.py is written for: the call
\* is accepted and stores the fee computed by set_fee's body.
SetFee(w) ==
    /\ pc[w] = "setfee"
    /\ tx' = [tx EXCEPT ![w] = set_fee(@, gas_limit[w], gas_price)]
    /\ pc' = [pc EXCEPT ![w] = "afford"]
    /\ UNCHANGED <<walletVars, sequence_lock, runVars, mainVars, kind, retries, gas_limit, tx_hash,
                   poll_retries, receipt, message, obs, last, reached>>

\* tx.get_fee(): the amount of the fee set on the transaction.
GetFee(t) == t.fee

UnaffordableBypassed(fee, bal) == FALSE

UnaffordableOffByOne(fee, bal) == fee > bal + 1

\* `if tx.get_fee() > self.balance: return False`
Unaffordable(fee, bal) == fee > bal

\* Affordability check, then `retries = 5; tx_hash = ""`.
Afford(w) ==
    /\ pc[w] = "afford"
    /\ IF Unaffordable(GetFee(tx[w]), balance)
       THEN /\ UNCHANGED <<walletVars>>
            /\ Leave(w, "False", "Unaffordable")
       ELSE /\ retries' = [retries EXCEPT ![w] = BroadcastRetries]
            /\ tx_hash' = [tx_hash EXCEPT ![w] = ""]
            /\ pc' = [pc EXCEPT ![w] = "broadcast"]
            /\ UNCHANGED <<walletVars, sequence_lock, runVars, mainVars, kind, gas_limit, tx,
                           poll_retries, receipt, message, obs, last,
                           reached>>

\* ---------------------------------------------------------------- broadcast
\* What the node can answer to POST /cosmos/tx/v1beta1/txs.
BroadcastResponses == {"request_error", "json_error", "no_tx_response", "rejected",
                       "accepted"}

\* APINode.broadcast_tx: the hash when tx_response.code == 0, "" otherwise.
broadcast_tx(resp) == IF resp = "accepted" THEN TxHash ELSE ""

\* `while retries > 0 and tx_hash == ""`
BroadcastLoop(r, h) == r > 0 /\ h = ""

\* `if tx_hash == -1:` - the failure test of the loop body and after the loop.
BroadcastFailed(h) == h = NegOne

\* One iteration: tx_hash = broadcast_tx(tx.get_tx_bytes());
\* `if tx_hash == -1: retries -= 1`.
Broadcast(w) ==
    /\ pc[w] = "broadcast"
    /\ BroadcastLoop(retries[w], tx_hash[w])
    /\ \E resp \in BroadcastResponses :
          /\ tx_hash' = [tx_hash EXCEPT ![w] = broadcast_tx(resp)]
          /\ retries' = [retries EXCEPT ![w] =
                           IF BroadcastFailed(broadcast_tx(resp)) THEN @ - 1 ELSE @]
          /\ obs' = [obs EXCEPT ![w] =
                       [@ EXCEPT !.bcastCalls = UpTo(@ + 1, MaxBroadcastFailures),
                                 !.issued = TRUE,
                                 !.rebroadcast = @ \/ obs[w].rejected,
                                 !.rejected = @ \/ resp = "rejected",
                                 !.failed = @ \/ resp # "accepted",
                                 !.tick = IF obs[w].bcastCalls = MaxBroadcastFailures
                                          THEN ~@ ELSE @]]
    /\ \E k \in sign_deterministic(PrivKey, SignDoc(tx[w])) :
          tx' = [tx EXCEPT ![w] = get_tx_bytes(@, k)]
    /\ UNCHANGED <<walletVars, sequence_lock, runVars, mainVars, pc, kind, gas_limit,
                   poll_retries, receipt, message, last, reached>>

\* What the broadcast-exhausted path returns: register_for_topic False,
\* submit_inference True.
UnbroadcastableResult(k) == IF k = "register" THEN "False" ELSE "True"

\* After the loop: `if tx_hash == -1: return ...`, else wait_for_tx(tx_hash)
\* starts with retries = tx_check_retries, receipt = None.
BroadcastExit(w) ==
    /\ pc[w] = "broadcast"
    /\ ~BroadcastLoop(retries[w], tx_hash[w])
    /\ IF BroadcastFailed(tx_hash[w])
       THEN /\ UNCHANGED <<walletVars>>
            /\ Leave(w, UnbroadcastableResult(kind[w]), "Unbroadcastable")
       ELSE /\ poll_retries' = [poll_retries EXCEPT ![w] = TxCheckRetries]
            /\ receipt' = [receipt EXCEPT ![w] = "None"]
            /\ pc' = [pc EXCEPT ![w] = "confirm"]
            /\ obs' = [obs EXCEPT ![w] = [@ EXCEPT !.bcastCalls = 0,
                                                     !.rejected = FALSE,
                                                     !.rebroadcast = FALSE,
                                                     !.tick = FALSE]]
            /\ UNCHANGED <<walletVars, sequence_lock, runVars, mainVars, kind, retries, gas_limit,
                           tx, tx_hash, message, last, reached>>

\* ------------------------------------------------------------- wait_for_tx
\* What the node can answer to GET /cosmos/tx/v1beta1/txs/{hash}: a transport
\* error, an unparsable body, a receipt with code 0 or not 0, "not found"
\* (code 5), or any other body without tx_response.
PollResponses == {"request_error", "json_error", "tx_code0", "tx_codeN", "not_found",
                  "unknown"}

\* `while retries > 0 and receipt is None`
PollLoop(r, rc) == r > 0 /\ rc = "None"

\* The value returned after the loop.
WaitResult(rc) ==
    IF rc = "None" THEN "transaction not included in a block"
    ELSE IF rc = "code0" THEN "" ELSE "raw_log"

\* One iteration of the polling loop.
Poll(w) ==
    /\ pc[w] = "confirm"
    /\ PollLoop(poll_retries[w], receipt[w])
    /\ \E resp \in PollResponses :
          /\ obs' = [obs EXCEPT ![w] =
                       [@ EXCEPT !.pollCalls = UpTo(@ + 1, TxCheckRetries + MaxUnknownPolls),
                                 !.failed = @ \/ resp # "tx_code0",
                                 !.tick = IF obs[w].pollCalls = TxCheckRetries + MaxUnknownPolls
                                          THEN ~@ ELSE @]]
          /\ CASE resp = "request_error" ->
                    /\ message' = [message EXCEPT ![w] = "httpx.RequestError"]
                    /\ pc' = [pc EXCEPT ![w] = "apply"]
                    /\ UNCHANGED <<poll_retries, receipt>>
               [] resp = "json_error" ->
                    /\ message' = [message EXCEPT ![w] = WaitResult(receipt[w])]
                    /\ pc' = [pc EXCEPT ![w] = "apply"]
                    /\ UNCHANGED <<poll_retries, receipt>>
               [] resp \in {"tx_code0", "tx_codeN"} ->
                    /\ receipt' = [receipt EXCEPT ![w] =
                                     IF resp = "tx_code0" THEN "code0" ELSE "codeN"]
                    /\ UNCHANGED <<poll_retries, message, pc>>
               [] resp = "not_found" ->
                    /\ poll_retries' = [poll_retries EXCEPT ![w] = @ - 1]
                    /\ UNCHANGED <<receipt, message, pc>>
               [] resp = "unknown" ->
                    UNCHANGED <<poll_retries, receipt, message, pc>>
    /\ UNCHANGED <<walletVars, sequence_lock, runVars, mainVars, kind, retries, gas_limit, tx,
                   tx_hash, last, reached>>

\* After the loop: the message is decided by the receipt.
PollExit(w) ==
    /\ pc[w] = "confirm"
    /\ ~PollLoop(poll_retries[w], receipt[w])
    /\ message' = [message EXCEPT ![w] = WaitResult(receipt[w])]
    /\ pc' = [pc EXCEPT ![w] = "apply"]
    /\ UNCHANGED <<walletVars, sequence_lock, runVars, mainVars, kind, retries, gas_limit, tx,
                   tx_hash, poll_retries, receipt, obs, last, reached>>

\* ------------------------------------------------- sequence/balance update
\* Terminal outcome named after the message of wait_for_tx.
OutcomeOf(msg) ==
    IF msg = "" THEN "Confirmed"
    ELSE IF msg = "raw_log" THEN "Rejected"
    ELSE IF msg = "httpx.RequestError" THEN "RequestError"
    ELSE "TimedOut"

AppliedResultTrue(k, msg) == "True"

\* register_for_topic returns message == ""; submit_inference returns True.
AppliedResult(k, msg) ==
    IF k = "register" THEN (IF msg = "" THEN "True" ELSE "False") ELSE "True"

increment_sequence_lost(s) == s

\* Wallet.increment_sequence
increment_sequence(s) == s + 1

DebitFeeTwice(bal, t) == bal - 2 * GetFee(t)

\* `self.balance -= tx.get_fee()`
DebitFee(bal, t) == bal - GetFee(t)

\* After wait_for_tx, on every path: balance -= fee, increment_sequence(), return.
Apply(w) ==
    /\ pc[w] = "apply"
    /\ balance' = DebitFee(balance, tx[w])
    /\ sequence' = increment_sequence(sequence)
    /\ UNCHANGED <<gas_price, sequence0>>
    /\ Leave(w, AppliedResult(kind[w], message[w]), OutcomeOf(message[w]))

\* ---------------------------------------------------------- specifications
WorkerStep(w) ==
    \/ CheckTopicActive(w)
    \/ CheckWhitelist(w)
    \/ SkipRegister(w)
    \/ CallRegister(w)
    \/ Recheck(w)
    \/ LoopTop(w)
    \/ GetTopicNonce(w)
    \/ Fetch(w)
    \/ Sleep(w)
    \/ Acquire(w)
    \/ Build(w)
    \/ Simulate(w)
    \/ SimulateExit(w)

MainStep ==
    \/ CheckConfig
    \/ StartThread
    \/ Interrupt
    \/ WaitExit
    \/ Join

WorkerNext(w) ==
    \/ WorkerStep(w)
    \/ SetFee(w)
    \/ Afford(w)
    \/ Broadcast(w)
    \/ BroadcastExit(w)
    \/ Poll(w)
    \/ PollExit(w)
    \/ Apply(w)

Next ==
    \/ \E w \in Workers : WorkerNext(w)
    \/ MainStep

Spec == Init /\ [][Next]_vars

\* Every live thread keeps being scheduled, main() included; whether a
\* KeyboardInterrupt arrives is up to the user.
FairSpec ==
    /\ Spec
    /\ \A w \in Workers : WF_vars(WorkerNext(w))
    /\ WF_vars(CheckConfig \/ StartThread \/ WaitExit \/ Join)

NextTx ==
    \/ \E w \in Workers :
          \/ WorkerStep(w)
          \/ SetFeeRaises(w)
    \/ MainStep

SpecTx == Init /\ [][NextTx]_vars

\* ------------------------------------------------ Transaction on its own
\* The class Transaction of tx.py used directly, through its own methods and
\* with set_fee called by the signature tx.py gives it.  Every worker holds
\* one Transaction object of the shared wallet; the node's gas price is any of
\* GasPrices (over GasPriceDen), the wallet's sequence any of
\* InitSequence..MaxSequence, the messages are those of the two Wallet
\* methods, the gas estimates are GasValues.
GasPrices == 1..MaxGasPrice
Bodies == {"register", "submit"}

txFrame == <<balance, gas_price, sequence0, sequence_lock, runVars, mainVars, pc, kind,
             retries, gas_limit, tx_hash, poll_retries, receipt, message, obs, last,
             reached>>

InitTransaction ==
    \E price \in GasPrices, seq \in InitSequence..MaxSequence : Constructed(price, seq)

\* tx = Transaction(wallet); tx.set_tx_body(...)
NewTransaction(w) ==
    /\ \E body \in Bodies : tx' = [tx EXCEPT ![w] = set_tx_body(Transaction(sequence), body)]
    /\ UNCHANGED <<sequence, txFrame>>

\* tx.set_fee(gas_limit=, gas_price=api_node.get_gas_price())
CallSetFee(w) ==
    /\ tx[w] # NoTx
    /\ \E g \in GasValues : tx' = [tx EXCEPT ![w] = set_fee(@, g, gas_price)]
    /\ UNCHANGED <<sequence, txFrame>>

\* tx.get_tx_bytes()
CallGetTxBytes(w) ==
    /\ tx[w] # NoTx
    /\ \E k \in sign_deterministic(PrivKey, SignDoc(tx[w])) :
          tx' = [tx EXCEPT ![w] = get_tx_bytes(@, k)]
    /\ UNCHANGED <<sequence, txFrame>>

NextTransaction ==
    \E w \in Workers :
       \/ NewTransaction(w)
       \/ CallSetFee(w)
       \/ CallGetTxBytes(w)

SpecTransaction == InitTransaction /\ [][NextTransaction]_vars

\* ------------------------------------------------------------------ claims
InWallet(w) == pc[w] \in InCall
AllEnded == \A w \in Workers : pc[w] = "none"
GotHash(rec) == rec.tx_hash = TxHash

\* C1: at no time are two workers inside register_for_topic / submit_inference:
\* a worker inside holds the lock, and the signer sequence its transaction
\* read is still the wallet's sequence (nobody advanced it meanwhile).
C1_MutualExclusion ==
    /\ \A a, b \in Workers : (InWallet(a) /\ InWallet(b)) => a = b
    /\ \A w \in Workers : InWallet(w) => sequence_lock = w
    /\ \A w \in Workers :
          (InWallet(w) /\ tx[w].sequence # -1) => tx[w].sequence = sequence

\* a worker is inside, its transaction built and a simulation made, while
\* another worker waits for the lock
C1_Witness ==
    \E a, b \in Workers : /\ pc[a] = "simulate" /\ tx[a].sequence = sequence
                          /\ obs[a].simCalls > 0
                          /\ pc[b] = "lock"

C4_SlotConsumedOnFailure ==
    /\ \A w \in Workers :
          (obs[w].bcastCalls >= BroadcastRetries /\ tx_hash[w] = "") =>
              (~InWallet(w) /\ sequence = obs[w].seqAtEntry + 1)
    /\ (last.issued /\ ~GotHash(last)) => last.seqDelta = 1

\* C5: every call ends after a bounded number of external calls: no retry
\* loop makes more calls than its budget (K1 simulations, K2 broadcasts,
\* K3 status queries).
C5_BoundedCalls ==
    \A w \in Workers :
        /\ obs[w].simCalls <= SimulateRetries
        /\ obs[w].bcastCalls <= BroadcastRetries
        /\ obs[w].pollCalls <= TxCheckRetries

\* C6: one call issues at most K2 = 5 broadcast_tx calls, and each failed
\* attempt takes one retry off the budget.
C6_BroadcastBudget ==
    \A w \in Workers :
        /\ obs[w].bcastCalls <= BroadcastRetries
        /\ (pc[w] = "broadcast" /\ tx_hash[w] = "") =>
               retries[w] = BroadcastRetries - obs[w].bcastCalls

\* C7: after broadcast_tx reported an on-chain rejection (code != 0) the call
\* never calls broadcast_tx again.
C7_RejectionTerminal == \A w \in Workers : ~obs[w].rebroadcast

\* C8: when gas simulation fails K1 = 3 times in a row the call has made
\* exactly 3 simulate_tx calls, ends Unestimable, has called no broadcast_tx
\* and leaves sequence and balance as they were.
C8_Unestimable ==
    /\ \A w \in Workers :
          /\ obs[w].simCalls <= SimulateRetries
          /\ (pc[w] = "simulate" /\ gas_limit[w] = -1) =>
                 retries[w] = SimulateRetries - obs[w].simCalls
    /\ last.simCalls = SimulateRetries => last.outcome = "Unestimable"
    /\ last.outcome = "Unestimable" =>
          /\ last.simCalls = SimulateRetries
          /\ ~last.issued
          /\ ~GotHash(last)
          /\ ~last.fee_set
          /\ last.seqDelta = 0
          /\ last.balDelta = 0

\* a call ended Unestimable after three failed simulations
C8_Witness ==
    /\ last.outcome = "Unestimable" /\ last.simCalls = 3
    /\ sequence = sequence0

C10_FeeStepSucceeds == last.result # "raised"

\* C11: wait_for_tx makes at most tx_check_retries status queries for one
\* hash, whatever the responses are, and a wait in which no query returned
\* the transaction ends with "transaction not included in a block".
C11_PollingBounded ==
    \A w \in Workers :
        /\ obs[w].pollCalls <= TxCheckRetries
        /\ (pc[w] = "apply" /\ receipt[w] = "None") =>
               message[w] = "transaction not included in a block"

\* C12: submit_inference is called only for a fetched nonce that is positive
\* and strictly above latest_used_nonce; latest_used_nonce never goes down
\* and is the submitted nonce once the call has returned; a fetched nonce
\* that is not above it leads to the sleep.  So no worker submits for the
\* same nonce twice.
C12_NonceGating ==
    [][\A w \in Workers :
          /\ (wstate'[w] = "submitting" /\ wstate[w] # "submitting") =>
                 /\ wstate[w] = "fetch"
                 /\ inference_nonce'[w] > 0
                 /\ inference_nonce'[w] > latest_used_nonce'[w]
          /\ (wstate'[w] = "fetch" /\ wstate[w] # "fetch") =>
                 /\ wstate[w] = "nonce"
                 /\ inference_nonce'[w] > 0
                 /\ inference_nonce'[w] > latest_used_nonce'[w]
          /\ (wstate[w] = "nonce" /\ wstate'[w] # "nonce"
                /\ inference_nonce'[w] <= latest_used_nonce[w]) => wstate'[w] = "sleep"
          /\ latest_used_nonce'[w] >= latest_used_nonce[w]
          /\ (wstate[w] = "submitting" /\ wstate'[w] = "sleep") =>
                 latest_used_nonce'[w] = inference_nonce[w]]_vars

\* a worker that submitted for a nonce fetched the same nonce again and went
\* to sleep without a value
C12_Witness ==
    \E w \in Workers : /\ wstate[w] = "sleep"
                       /\ latest_used_nonce[w] > 0
                       /\ inference_nonce[w] = latest_used_nonce[w]
                       /\ inference_value[w] = "None"

\* C13: when submit_inference, called for nonce n, is over - however it went,
\* an error included - latest_used_nonce is n.
C13_NonceConsumed ==
    [][\A w \in Workers :
          (wstate[w] = "submitting" /\ wstate'[w] # "submitting") =>
              latest_used_nonce'[w] = inference_nonce[w]]_vars

\* C14: a worker that is asleep with its stop flag set wakes up to the loop
\* test only, and from the loop test with the flag set it only stops: no
\* chain query, inference fetch or submission follows.
C14_CancelDuringSleep ==
    [][\A w \in Workers :
          /\ (stop_event[w] /\ wstate[w] = "sleep") =>
                 /\ wstate'[w] \in {"sleep", "looptop"}
                 /\ pc'[w] = "none"
          /\ (stop_event[w] /\ wstate[w] = "looptop") =>
                 /\ wstate'[w] \in {"looptop", "stopped"}
                 /\ pc'[w] = "none"
          /\ stop_event[w] => stop_event'[w]
          /\ wstate[w] = "stopped" => wstate'[w] = "stopped"]_vars

\* main() has set the stop flag of a worker that is asleep after a submission
C14_Witness ==
    \E w \in Workers : /\ interrupted /\ stop_event[w]
                       /\ wstate[w] = "sleep"
                       /\ inference_value[w] = "value"
                       /\ latest_used_nonce[w] = inference_nonce[w]

\* C15: a worker whose stop flag is set while it does the work of an
\* iteration does not start the sleep of that iteration.
C15_NoSleepAfterStop ==
    [][\A w \in Workers :
          (stop_event[w] /\ wstate[w] \in {"nonce", "fetch", "submitting"}) =>
              wstate'[w] # "sleep"]_vars

AllStopped == \A w \in Workers : wstate[w] = "stopped"

\* C16: once main() has caught the interrupt every worker eventually stops.
C16_ShutdownLiveness == interrupted ~> AllStopped

\* C17: main() is at "Execution finished." only when every worker thread has
\* stopped.
C17_JoinBarrier == mpc = "finished" => AllStopped

\* main() finished after an interrupt that stopped a polling worker
C17_Witness ==
    /\ mpc = "finished" /\ interrupted /\ joined = NumWorkers
    /\ \E w \in Workers : reason[w] = "stop_event"

\* C18: a worker for which an onboarding check found an abort condition
\* (topic inactive, not whitelisted, registration failed, topic inactive at
\* the re-check) is stopped, is in no Wallet call, and has never used a nonce.
C18_OnboardingAborts ==
    \A w \in Workers :
        reason[w] \in OnboardingAborts =>
            /\ wstate[w] = "stopped"
            /\ pc[w] = "none"
            /\ latest_used_nonce[w] = 0

\* one worker stopped because it is not whitelisted, another because its
\* registration failed
C18_Witness ==
    \E a, b \in Workers : /\ reason[a] = "not_whitelisted" /\ wstate[a] = "stopped"
                          /\ reason[b] = "register_failed" /\ wstate[b] = "stopped"

\* The order of the positions of Worker.run.
Rank(st) ==
    CASE st = "unstarted" -> -1
      [] st = "start" -> 0
      [] st = "whitelist" -> 1
      [] st = "registered" -> 2
      [] st = "registering" -> 3
      [] st = "recheck" -> 4
      [] st \in PollingStates -> 5
      [] st = "stopped" -> 6

\* C19: register_for_topic is called from one place only - after the
\* activity and whitelist checks passed and is_registered_for was asked - and
\* Worker.run never goes back to it: at most one registration per worker.
C19_RegisterOnce ==
    [][\A w \in Workers :
          /\ (kind'[w] = "register" /\ kind[w] # "register") =>
                 /\ wstate[w] = "registered"
                 /\ wstate'[w] = "registering"
                 /\ reason[w] = "none"
          /\ (wstate'[w] = "registering" /\ wstate[w] # "registering") =>
                 kind'[w] = "register"
          /\ (wstate[w] = "registered" /\ wstate'[w] # "registered") =>
                 wstate'[w] \in {"registering", "recheck"}
          /\ wstate'[w] # wstate[w] => Rank(wstate'[w]) >= Rank(wstate[w])]_vars

\* one worker's registration is over while another worker, which found
\* itself registered, polls
C19_Witness ==
    \E a, b \in Workers : /\ last.worker = a /\ last.kind = "register"
                          /\ wstate[a] \in {"recheck", "stopped"}
                          /\ wstate[b] \in PollingStates

\* C20: a call in which no chain call failed and whose fee the balance
\* covers returns True with the sequence advanced by one; after such a
\* registration the worker goes on to the loop, after such a submission the
\* nonce is used.
C20_EndToEnd ==
    (last.kind # "none" /\ ~last.failed /\ last.outcome # "Unaffordable") =>
        /\ last.result = "True"
        /\ last.seqDelta = 1
        /\ last.kind = "register" => wstate[last.worker] = "recheck"
        /\ last.kind = "submit" => wstate[last.worker] = "sleep"

\* C21: a worker that found its topic inactive at the start of a polling
\* iteration has its stop flag set and is at the loop test or stopped: it is
\* never at the nonce query, the inference fetch, a submission or the sleep,
\* and holds no value of an iteration.
C21_InactiveInLoop ==
    \A w \in Workers :
        reason[w] = "inactive_loop" =>
            /\ wstate[w] \in {"looptop", "stopped"}
            /\ stop_event[w]
            /\ pc[w] = "none" /\ kind[w] = "none"
            /\ inference_nonce[w] = 0 /\ inference_value[w] = "None"

\* a worker stopped because its topic went inactive, without any interrupt,
\* while another worker is polling
C21_Witness ==
    \E a, b \in Workers : /\ reason[a] = "inactive_loop" /\ wstate[a] = "stopped"
                          /\ ~interrupted
                          /\ wstate[b] \in PollingStates /\ ~stop_event[b]

\* C22: the step in which an exception ends a worker (in the loop body or
\* inside a Wallet method) stops that worker only: the wallet lock is free
\* afterwards, no other worker's position, flag or nonce changes, and main()
\* goes on; a stopped worker never holds the lock.
C22_FailureIsolation ==
    [][\A w \in Workers :
          /\ (reason'[w] = "exception" /\ reason[w] # "exception") =>
                 /\ wstate'[w] = "stopped"
                 /\ pc'[w] = "none"
                 /\ sequence_lock' = IF sequence_lock = w THEN NoWorker ELSE sequence_lock
                 /\ mpc' = mpc
                 /\ \A v \in Workers \ {w} :
                        /\ wstate'[v] = wstate[v]
                        /\ pc'[v] = pc[v]
                        /\ stop_event'[v] = stop_event[v]
                        /\ latest_used_nonce'[v] = latest_used_nonce[v]
          /\ wstate'[w] = "stopped" => sequence_lock' # w]_vars

\* a worker was stopped by an exception inside submit_inference, and another
\* worker has taken the lock since and is inside its own submission
C22_Witness ==
    \E a, b \in Workers : /\ last.worker = a /\ last.kind = "submit"
                          /\ last.result = "raised"
                          /\ wstate[a] = "stopped" /\ reason[a] = "exception"
                          /\ sequence_lock = b /\ kind[b] = "submit"
                          /\ pc[b] = "simulate" /\ obs[b].simCalls > 0

\* C23: the inference fetch of an iteration starts with the budget
\* inference_fetch_retries, the budget only goes down, one attempt at a
\* time, and the fetch ends either with a value and the submit call or with
\* no value, no call and the sleep: the worker stays in Polling.
C23_FetchBounded ==
    [][\A w \in Workers :
          /\ (wstate'[w] = "fetch" /\ wstate[w] # "fetch") =>
                 fetch_retries'[w] = InferenceFetchRetries
          /\ (wstate[w] = "fetch" /\ wstate'[w] = "fetch") =>
                 /\ fetch_retries'[w] \in {fetch_retries[w], fetch_retries[w] - 1}
                 /\ fetch_retries'[w] > 0
          /\ (wstate[w] = "fetch" /\ wstate'[w] # "fetch") =>
                 \/ /\ wstate'[w] = "submitting"
                    /\ inference_value'[w] = "value"
                 \/ /\ wstate'[w] = "sleep"
                    /\ fetch_retries[w] = 1
                    /\ inference_value'[w] = "None"
                    /\ pc'[w] = "none"
                    /\ latest_used_nonce'[w] = latest_used_nonce[w]]_vars

\* C24: a fetch attempt never stops the worker: an attempt that yields no
\* value either leaves the worker in the fetch loop with one retry less or,
\* when it was the last one, takes it to the sleep.
C24_ValueUnavailable ==
    [][\A w \in Workers :
          (wstate[w] = "fetch" /\ inference_value'[w] = "None"
              /\ fetch_retries'[w] # fetch_retries[w]) =>
                 /\ fetch_retries'[w] = (IF fetch_retries[w] = 1 THEN 0
                                         ELSE fetch_retries[w] - 1)
                 /\ wstate'[w] = (IF fetch_retries[w] = 1 THEN "sleep" ELSE "fetch")
                 /\ reason'[w] = reason[w]]_vars

\* C25: a call whose confirmed transaction was rejected on chain (result
\* code not 0) returns a failure, register_for_topic and submit_inference
\* alike, with the sequence and the balance advanced.
C25_RejectionSurfaced ==
    last.outcome = "Rejected" =>
        /\ last.result = "False"
        /\ last.seqDelta = 1
        /\ last.balDelta = last.fee

\* C26: once the fee is set, the transaction's gas_limit is
\* ceil(estimated gas * gas_adjustment) for the wallet's configured
\* adjustment, and is not negative.  For the rational n/d, ceil(g * n/d) is
\* (g * n + d - 1) div d.
C26_FeeGasLimit ==
    \A w \in Workers :
        tx[w].fee_set =>
            /\ tx[w].gas_limit = (gas_limit[w] * gas_adjustment[1] + gas_adjustment[2] - 1)
                                     \div gas_adjustment[2]
            /\ tx[w].gas_limit >= 0

\* C27: a transaction is signed only after its fee has been set; once it is
\* signed, its fee, gas limit and signer sequence are never changed, and no
\* further simulate_tx or broadcast_tx call (each of which signs it again)
\* is made with it.
C27_SignedOnce ==
    [][\A w \in Workers :
          /\ (~tx[w].signed /\ tx'[w].signed) => tx[w].fee_set
          /\ (tx[w].signed /\ tx'[w].signed) =>
                 /\ tx'[w].fee_set = tx[w].fee_set
                 /\ tx'[w].fee = tx[w].fee
                 /\ tx'[w].gas_limit = tx[w].gas_limit
                 /\ tx'[w].sequence = tx[w].sequence
                 /\ obs'[w].simCalls <= obs[w].simCalls
                 /\ obs'[w].bcastCalls <= obs[w].bcastCalls]_vars

\* C28: when a startup check of main() has found a fatal error (seed phrase
\* missing or empty, API parameters missing, chain node unreachable or
\* syncing, wallet not initialized, topic list missing or empty) the process
\* has exited and no Worker thread has been started; a thread is started
\* only when nothing was found.
C28_FatalConfig ==
    /\ fatal # "none" =>
          /\ mpc = "exited"
          /\ \A w \in Workers : wstate[w] = "unstarted" /\ pc[w] = "none"
    /\ mpc \in {"startup", "exited"} => \A w \in Workers : wstate[w] = "unstarted"

\* main() exited because the wallet failed to initialize
C28_Witness ==
    /\ fatal = "wallet_not_initialized" /\ mpc = "exited"
    /\ \A w \in Workers : wstate[w] = "unstarted"

C30_TransportRetried ==
    \A w \in Workers :
        (pc[w] = "apply" /\ receipt[w] = "None" /\ message[w] = "httpx.RequestError") =>
            poll_retries[w] = 0

\* C31: the fee amount set on a transaction is the adjusted gas limit
\* stored in the same fee times the gas price, rounded down to a whole minor
\* unit, and is never negative.
C31_FeeAmount ==
    \A w \in Workers : tx[w].fee_set =>
        /\ tx[w].fee = (tx[w].gas_limit * gas_price) \div GasPriceDen
        /\ tx[w].fee >= 0

\* C32: building a transaction (constructing it and setting its body) puts
\* the wallet's current sequence and public key into the signer metadata,
\* with a zero fee, and leaves the wallet's sequence and balance as they
\* were; the account number is never assigned after construction.
C32_BuildFrame ==
    [][\A w \in Workers :
          (tx'[w] # tx[w] /\ tx'[w] # NoTx /\ ~tx'[w].signed /\ ~tx'[w].fee_set) =>
             /\ tx'[w].sequence = sequence
             /\ tx'[w].public_key = PubKey
             /\ tx'[w].body \in Bodies
             /\ tx'[w].gas_limit = 0 /\ tx'[w].fee = 0
             /\ sequence' = sequence
             /\ balance' = balance
             /\ \A v \in Workers \ {w} : tx'[v] = tx[v]]_vars

\* A transaction built for a wallet whose sequence is not the lowest one,
\* next to another transaction of the same wallet that is already signed.
C32_Witness ==
    \E w, v \in Workers :
       /\ tx[w].body = "submit" /\ ~tx[w].signed /\ ~tx[w].fee_set
       /\ tx[w].sequence = sequence /\ sequence = MaxSequence /\ sequence > InitSequence
       /\ balance = InitBalance
       /\ tx[v].signed /\ tx[v].fee_set

C36_NonceKeptOnFetchFailure ==
    [][\A w \in Workers :
          /\ (wstate[w] = "fetch" /\ wstate'[w] # "submitting") =>
                 latest_used_nonce'[w] = latest_used_nonce[w]
          /\ (wstate[w] = "fetch" /\ wstate'[w] = "sleep") =>
                 /\ inference_value'[w] = "None"
                 /\ fetch_retries'[w] = 0
                 /\ pc'[w] = "none" /\ kind'[w] = "none"
                 /\ inference_nonce'[w] = inference_nonce[w]
                 /\ NewNonce(inference_nonce'[w], latest_used_nonce'[w])
          /\ (wstate[w] \in {"sleep", "looptop"} /\ wstate'[w] # wstate[w]) =>
                 latest_used_nonce'[w] = latest_used_nonce[w]
          /\ (wstate[w] = "nonce" /\ wstate'[w] # "nonce"
                /\ NewNonce(inference_nonce'[w], latest_used_nonce[w])) =>
                 /\ wstate'[w] = "fetch"
                 /\ fetch_retries'[w] = InferenceFetchRetries]_vars

\* A worker asleep after an iteration whose fetch attempts all failed: the
\* nonce it found is still unused.
C36_Witness ==
    \E w \in Workers :
       /\ wstate[w] = "sleep"
       /\ inference_nonce[w] > 0
       /\ inference_value[w] = "None"
       /\ fetch_retries[w] = 0
       /\ latest_used_nonce[w] < inference_nonce[w]
       /\ reason[w] # "exception"

\* C37: stopping is per worker: a worker's stop flag is set only by the
\* interrupt of main() or by the worker itself on finding its topic inactive
\* in the loop; a worker that stopped for any other reason (an exception, an
\* onboarding abort) has set no flag, its own included.
C37_StopPerWorker ==
    /\ \A w \in Workers : stop_event[w] => (interrupted \/ reason[w] = "inactive_loop")
    /\ ~interrupted => \A w \in Workers : stop_event[w] <=> reason[w] = "inactive_loop"
    /\ interrupted => \A w \in Workers : stop_event[w]

\* One worker has stopped itself on an inactive topic and another has
\* stopped after an exception, without any interrupt: only the first one's
\* flag is set.
C37_Witness ==
    \E a, b \in Workers :
       /\ wstate[a] = "stopped" /\ reason[a] = "inactive_loop" /\ stop_event[a]
       /\ wstate[b] = "stopped" /\ reason[b] = "exception" /\ ~stop_event[b]
       /\ ~interrupted /\ mpc = "waiting"

====
